---- MODULE Spec2Model ----
(***************************************************************************)
(* Model of the duplicate-audio workflow of                                *)
(* src/dataset_organizer/dataset_organizer.py: the detection worker        *)
(* (run_dedup_analysis, find_audio_path, audio_content_hash), the review   *)
(* window (show_dedup_results, on_dedup_tree_click, do_delete) and the     *)
(* executor (execute_dedup_deletion), together with load_preview, which    *)
(* shares raw_files_map with the worker.                                   *)
(*                                                                         *)
(* A manifest line is a record: the directory prefix and the basename of   *)
(* its path field, its transcript text, the whitespace around the line     *)
(* ("lead", "trail" or "none") and its number of '|' separated fields.     *)
(* The audio tree maps a path <<dir, name>> to the identity of the file    *)
(* stored there (or NoFile).                                               *)
(***************************************************************************)
EXTENDS Integers, Sequences, FiniteSets, TLC

\* ------------------------------------------------------------------ bounds
MaxDetect == 2     \* detections started in one run (each opens at most one window)
MaxClock == 1      \* the clock's seconds are 0..MaxClock
MaxLines == 3      \* manifest length in the detection-only specification
MaxOps == 2        \* operator clicks besides starting and committing, in one run
MaxFaults == 1     \* I/O calls that raise, in one run
MaxGroupLines == 4 \* manifest length in the specification of two transcript groups

\* ------------------------------------------------------------------ universe
Dirs == {"x", "y"}
Names == {"a", "b", "c", "z"}
Texts == {"H", "W"}
Pads == {"none", "lead", "trail"}
Paths == Dirs \X Names
NoPath == <<>>
NoFile == "none"
Contents == {"xa", "xb", "yb", "yc"}
Dets == 1..MaxDetect
Clock == 0..MaxClock

Line(d, n, t, p) == [dir |-> d, name |-> n, text |-> t, pad |-> p, fields |-> 4]
\* a line with fewer than four fields (or an empty line)
JunkLine == [dir |-> "x", name |-> "a", text |-> "H", pad |-> "none", fields |-> 2]
Lines == {Line(d, n, t, p) : d \in Dirs, n \in Names, t \in Texts, p \in Pads}
             \cup {JunkLine}

\* the audio tree before any execution: raw/x/a, raw/x/b, raw/y/b, raw/y/c
\* (two files share the basename b; no file is named z)
InitFiles ==
    [p \in Paths |->
        CASE p = <<"x", "a">> -> "xa"
          [] p = <<"x", "b">> -> "xb"
          [] p = <<"y", "b">> -> "yb"
          [] p = <<"y", "c">> -> "yc"
          [] OTHER -> NoFile]

VARIABLES
    esd,             \* the live manifest esd.list: a sequence of lines
    files,           \* the audio tree under raw/: Paths -> Contents or NoFile
    backups,         \* backup_dedup_<timestamp> directories, by timestamp
    raw_files_map,   \* self.raw_files_map: Names -> Paths or NoPath
    dedup_data_map,  \* self.dedup_data_map: the detection whose dicts it holds (0: {})
    clock,           \* the last second datetime.now() returned
    det,             \* the detection worker threads, by detection
    wins,            \* the result windows, by detection
    exec,            \* execute_dedup_deletion activations, by window
    stack,           \* the UI thread's nested activations (windows), innermost last
    playing,         \* the clip pygame.mixer.music plays (NoPath: none)
    loaded,          \* the clip pygame.mixer.music has loaded (NoPath: none)
    players,         \* the _play threads of play_audio, in the order started
    params,          \* the three tuning entries dedup_top_db, dedup_hash_sr, dedup_q_levels
    param_errors,    \* the times start_dedup_check reported a non-numeric parameter
    ops,             \* the operator's clicks counted against MaxOps
    faults,          \* the I/O failures counted against MaxFaults
    audio,           \* the samples each file content decodes to (fixed in a run)
    walkOrder        \* the order os.walk lists the directories of raw/ (fixed)

\* the mixer and the playback threads
mixer == <<playing, loaded, players>>

\* the tuning entries and the errors reported for them
entry == <<params, param_errors>>

vars == <<esd, files, backups, raw_files_map, dedup_data_map, clock, det, wins,
          exec, stack, playing, loaded, players, params, param_errors, ops, faults,
          audio, walkOrder>>

\* ------------------------------------------------------------------ strings
\* str.strip() of a manifest line: the whitespace around it is removed
Strip(l) == [l EXCEPT !.pad = "none"]

\* parts = line.split("|", 3); len(parts) == 4 and the line is not empty
IsRecord(l) == l.fields = 4

\* parts[3]: trailing whitespace of the line belongs to the transcript text
RecText(l) == <<l.text, l.pad = "trail">>

\* os.path.basename(parts[0]): the directory prefix (and whitespace before it) drops
Basename(l) == l.name

\* ------------------------------------------------------------------ detection
RECURSIVE ParseRecords(_, _)
\* the manifest positions run_dedup_analysis keeps as records, in file order
ParseRecords(m, i) ==
    IF i > Len(m) THEN <<>>
    ELSE (IF IsRecord(m[i]) THEN <<i>> ELSE <<>>) \o ParseRecords(m, i + 1)

\* every record in one group, whatever its text
TextGroupAll(m, recs, text) == recs

\* text_groups[text]: the records of one transcript text, in file order
TextGroup(m, recs, text) ==
    LET Same(i) == RecText(m[i]) = text IN SelectSeq(recs, Same)

\* the turns of the inner loop over one group: the record, the group's key, and
\* whether the turn is the group's first (hash_to_first is empty then)
GroupTurns(group, text) ==
    [n \in 1..Len(group) |-> [rec |-> group[n], text |-> text, first |-> n = 1]]

RECURSIVE GroupOrder(_, _, _)
\* text_groups.items(): the groups in the order their text was first inserted;
\* a group of fewer than two records is passed over
GroupOrder(m, recs, j) ==
    IF j > Len(recs) THEN <<>>
    ELSE LET text == RecText(m[recs[j]])
             first == \A k \in 1..(j - 1) : RecText(m[recs[k]]) # text
             group == TextGroup(m, recs, text)
         IN  (IF first /\ Len(group) >= 2 THEN GroupTurns(group, text) ELSE <<>>)
                 \o GroupOrder(m, recs, j + 1)

RECURSIVE GroupOrderBackwards(_, _, _)
\* the groups in the reverse of the order their text was first inserted
GroupOrderBackwards(m, recs, j) ==
    IF j > Len(recs) THEN <<>>
    ELSE LET text == RecText(m[recs[j]])
             first == \A k \in 1..(j - 1) : RecText(m[recs[k]]) # text
             group == TextGroup(m, recs, text)
         IN  GroupOrderBackwards(m, recs, j + 1)
                 \o (IF first /\ Len(group) >= 2 THEN GroupTurns(group, text) ELSE <<>>)

\* the turns taken group by group from the last group to the first
ScanOrderBackwards(m) == GroupOrderBackwards(m, ParseRecords(m, 1), 1)

\* the turns of the two nested loops, in the order they are taken
ScanOrder(m) == GroupOrder(m, ParseRecords(m, 1), 1)

\* ------------------------------------------------------------------ fingerprint
\* A decoded clip is a sequence of sample magnitudes at SampleRate (sr); the
\* empty sequence stands for a file librosa cannot decode.
SampleRate == 16000

\* a tk.IntVar entry: a number, or text that IntVar.get() raises on
Num(n) == [numeric |-> TRUE, val |-> n]
NotANumber == [numeric |-> FALSE, val |-> 0]
DefaultParams == [top_db |-> Num(40), hash_sr |-> Num(2000), q_levels |-> Num(15)]

\* p_top_db, p_hash_sr, p_q_levels as start_dedup_check passes them to the worker
Args(p) == [top_db |-> p.top_db.val, hash_sr |-> p.hash_sr.val,
            q_levels |-> p.q_levels.val]

\* None
Unavailable == <<>>

\* np.max(np.abs(y))
Peak(y) ==
    IF y = <<>> THEN 0
    ELSE CHOOSE m \in {y[i] : i \in 1..Len(y)} : \A i \in 1..Len(y) : y[i] <= m

\* the amplitude ratio of top_db decibels, 10 ^ (top_db / 20), to the integer below
Gain(top_db) ==
    IF top_db >= 40 THEN 100 ELSE IF top_db >= 20 THEN 10
    ELSE IF top_db >= 10 THEN 3 ELSE 1

\* a sample more than top_db below the clip's peak
Silent(s, peak, top_db) == s * Gain(top_db) < peak

\* the samples that are not silent
Loud(y, top_db) == {i \in 1..Len(y) : ~Silent(y[i], Peak(y), top_db)}

\* librosa.effects.trim(y, top_db): the silence at both ends is cut off
Trim(y, top_db) ==
    LET loud == Loud(y, top_db) IN
    IF loud = {} THEN <<>>
    ELSE SubSeq(y, CHOOSE i \in loud : \A k \in loud : i <= k,
                   CHOOSE i \in loud : \A k \in loud : i >= k)

\* librosa.resample(y, orig_sr=sr, target_sr=hash_sr): one sample in sr / hash_sr
\* is kept (no change when the rates are equal)
Resample(y, hash_sr) ==
    IF hash_sr = SampleRate THEN y
    ELSE LET step == SampleRate \div hash_sr
             n == (Len(y) + step - 1) \div step
         IN  [j \in 1..n |-> y[(j - 1) * step + 1]]

\* np.round(a / b): to the nearest integer, a half to the even one (a >= 0, b > 0)
RoundHalfEven(a, b) ==
    LET q == a \div b
        r == a % b
    IN  IF 2 * r < b THEN q
        ELSE IF 2 * r > b THEN q + 1
        ELSE IF q % 2 = 0 THEN q ELSE q + 1

\* astype(np.int8)
Int8(v) == ((v + 128) % 256) - 128

\* np.round((y / max_abs) * half).astype(np.int8) with half = (q_levels - 1) / 2
Quantize(y, peak, q_levels) ==
    [j \in 1..Len(y) |-> Int8(RoundHalfEven(y[j] * (q_levels - 1), 2 * peak))]

\* the body of audio_content_hash on a decoded clip: the quantized samples stand
\* for their SHA-1 digest
Digest(y, a) ==
    LET trimmed == Trim(y, a.top_db) IN
    IF y = <<>> \/ trimmed = <<>> \/ Peak(trimmed) = 0
    THEN Unavailable
    ELSE Quantize(Resample(trimmed, a.hash_sr), Peak(trimmed), a.q_levels)

\* the digest computed from the place of the file instead of its samples
AudioContentHashOfPath(fs, p, a) ==
    IF p = NoPath \/ fs[p] = NoFile THEN Unavailable
    ELSE IF Digest(audio[fs[p]], a) = Unavailable THEN Unavailable
    ELSE IF p[1] = "x" THEN <<0>> ELSE <<1>>

\* audio_content_hash(path, top_db, hash_sr, q_levels): the digest of the file's
\* samples, or None when the file cannot be read or holds no sound
AudioContentHash(fs, p, a) ==
    IF p = NoPath \/ fs[p] = NoFile THEN Unavailable
    ELSE Digest(audio[fs[p]], a)

\* os.walk(raw_dir) in find_audio_path: the first directory that holds filename
WalkFirst(fs, n) ==
    LET hits == SelectSeq(walkOrder, LAMBDA d : fs[<<d, n>>] # NoFile)
    IN  IF hits = <<>> THEN NoPath ELSE <<hits[1], n>>

\* os.walk(raw_dir) in load_preview: every file is entered, a later one replaces
WalkLast(fs, n) ==
    LET hits == SelectSeq(walkOrder, LAMBDA d : fs[<<d, n>>] # NoFile)
    IN  IF hits = <<>> THEN NoPath ELSE <<hits[Len(hits)], n>>

\* find_audio_path: the cached path if any, else the first match of a walk
FindAudioPath(map, fs, n) ==
    IF map[n] # NoPath THEN map[n] ELSE WalkFirst(fs, n)

\* ------------------------------------------------------------------ records
\* hash_to_first = {}: a dict from digest to (rec, audio_path)
EmptyHashToFirst == [h \in {} |-> [rec |-> 0, path |-> NoPath]]

\* a hash_to_first that is never filled
PutNothing(h2f, h, first) == h2f

\* hash_to_first[h] = (rec, audio_path)
Put(h2f, h, first) == [x \in DOMAIN h2f \cup {h} |-> IF x = h THEN first ELSE h2f[x]]

\* a worker thread that has not been started
IdleDet == [pc |-> "idle", args |-> Args(DefaultParams), lines |-> <<>>,
            order |-> <<>>, k |-> 1, hash_to_first |-> EmptyHashToFirst,
            dups |-> <<>>, hs |-> <<>>, srcs |-> <<>>]

NoWindow == [state |-> "none", sel |-> <<>>, icons |-> <<>>]

NoBackup == [exists |-> FALSE, hasEsd |-> FALSE, esd |-> <<>>,
             deleted |-> [n \in Names |-> NoFile]]

NoExec == [pc |-> "none", dupes |-> <<>>, ts |-> -1, todo |-> {}, err |-> "none",
           pre |-> <<>>, prefiles |-> InitFiles, post |-> <<>>, rewritten |-> FALSE,
           moved |-> {}, confirmed |-> FALSE, read |-> <<>>, copied |-> <<>>]

\* one entry of duplicate_groups (keep and del are the records' manifest positions)
Candidate(m, text, orig, i, path) ==
    [text |-> text,
     keep |-> orig.rec, del |-> i,
     keep_file |-> Basename(m[orig.rec]), keep_path |-> orig.path,
     delete_file |-> Basename(m[i]), delete_path |-> path,
     delete_line |-> m[i], keep_line |-> m[orig.rec]]

\* ------------------------------------------------------------------ UI thread
Top == stack[Len(stack)]

\* self.log ends in root.update(): pending events are handled inside these calls
LogPoints == {"log1", "log2", "log3", "logE"}

\* the UI thread handles events: in mainloop, or in the update() of a log call
Dispatching == IF stack = <<>> THEN TRUE ELSE exec[Top].pc \in LogPoints

\* ------------------------------------------------------------------ worker
\* the operator types into one of the three tuning entries
EditParams(p) ==
    /\ Dispatching
    /\ p # params
    /\ ops < MaxOps
    /\ ops' = ops + 1
    /\ params' = p
    /\ UNCHANGED <<esd, files, backups, raw_files_map, dedup_data_map, clock, det,
                   wins, exec, stack, mixer, param_errors, faults, audio, walkOrder>>

\* the three IntVar.get() calls pass whatever the entries hold
ParamsOkAlways(p) == TRUE

\* lines 622-628: the three IntVar.get() calls return numbers
ParamsOk(p) == p.top_db.numeric /\ p.hash_sr.numeric /\ p.q_levels.numeric

\* start_dedup_check: the parameters are read (a non-number is reported and the
\* handler returns), the operator confirms, the worker thread is started
StartDedup(d) ==
    /\ Dispatching
    /\ det[d].pc = "idle"
    /\ \A e \in Dets : e < d => det[e].pc # "idle"
    /\ IF ParamsOk(params)
       THEN /\ \E yes \in BOOLEAN :
                  IF yes
                  THEN det' = [det EXCEPT ![d].pc = "start", ![d].args = Args(params)]
                  ELSE UNCHANGED det
            /\ UNCHANGED <<ops, param_errors>>
       ELSE /\ ops < MaxOps
            /\ ops' = ops + 1
            /\ param_errors' = param_errors + 1
            /\ UNCHANGED det
    /\ UNCHANGED <<esd, files, backups, raw_files_map, dedup_data_map, clock, wins,
                   exec, stack, mixer, params, faults, audio, walkOrder>>

\* run_dedup_analysis, lines 648-662: the manifest is read and grouped by text
ReadManifest(d) ==
    /\ det[d].pc = "start"
    /\ det' = [det EXCEPT ![d].pc = "log664", ![d].lines = esd,
                          ![d].order = ScanOrder(esd)]
    /\ UNCHANGED <<esd, files, backups, raw_files_map, dedup_data_map, clock, wins,
                   exec, stack, mixer, entry, ops, faults, audio, walkOrder>>

\* line 664: the worker's log call is served by the UI thread
LogGroups(d) ==
    /\ det[d].pc = "log664"
    /\ Dispatching
    /\ det' = [det EXCEPT ![d].pc = IF det[d].order = <<>> THEN "finish" ELSE "scan"]
    /\ UNCHANGED <<esd, files, backups, raw_files_map, dedup_data_map, clock, wins,
                   exec, stack, mixer, entry, ops, faults, audio, walkOrder>>

\* only a record whose file is not found is passed over
SkippedIfMissing(path, h) == path = NoPath

\* lines 685-698: a record whose file is not found or has no digest is passed over
Skipped(path, h) == path = NoPath \/ h = Unavailable

\* the loop body with the first-seen entry replaced on every turn
ScanRecordLastWins(w, path, h) ==
    LET turn == w.order[w.k]
        i == turn.rec
        h2f == IF turn.first THEN EmptyHashToFirst ELSE w.hash_to_first
    IN  [w EXCEPT
           !.k = w.k + 1,
           !.pc = IF w.k = Len(w.order) THEN "finish" ELSE "scan",
           !.hs = Append(w.hs, h),
           !.hash_to_first =
               IF Skipped(path, h) THEN h2f
               ELSE Put(h2f, h, [rec |-> i, path |-> path]),
           !.dups =
               IF ~Skipped(path, h) /\ h \in DOMAIN h2f
               THEN Append(w.dups, Candidate(w.lines, turn.text, h2f[h], i, path))
               ELSE w.dups]

\* the worker's state after the loop body (lines 678-711) ran on turn order[k];
\* a group's duplicates are appended to duplicate_groups when the group is done
\* (lines 715-731), which leaves them in the order they are found in
ScanRecord(w, path, h) ==
    LET turn == w.order[w.k]
        i == turn.rec
        m == w.lines
        h2f == IF turn.first THEN EmptyHashToFirst ELSE w.hash_to_first
        last == w.k = Len(w.order)
    IN  [w EXCEPT
           !.k = w.k + 1,
           !.pc = IF last THEN "finish" ELSE "scan",
           !.hs = Append(w.hs, h),
           !.hash_to_first =
               IF Skipped(path, h) THEN h2f
               ELSE IF h \in DOMAIN h2f THEN h2f
               ELSE Put(h2f, h, [rec |-> i, path |-> path]),
           !.dups =
               IF ~Skipped(path, h) /\ h \in DOMAIN h2f
               THEN Append(w.dups, Candidate(m, turn.text, h2f[h], i, path))
               ELSE w.dups]

\* one turn of the loop over a group's records: resolve the file, hash it
Scan(d) ==
    /\ det[d].pc = "scan"
    /\ LET w == det[d]
           n == Basename(w.lines[w.order[w.k].rec])
           path == FindAudioPath(raw_files_map, files, n)
           h == AudioContentHash(files, path, w.args)
           src == IF path = NoPath THEN NoFile ELSE files[path]
       IN  /\ path = NoPath => Dispatching
           /\ raw_files_map' = [raw_files_map EXCEPT ![n] = path]
           /\ det' = [det EXCEPT ![d] =
                         [ScanRecord(w, path, h) EXCEPT !.srcs = Append(w.srcs, src)]]
    /\ UNCHANGED <<esd, files, backups, dedup_data_map, clock, wins, exec, stack,
                   mixer, entry, ops, faults, audio, walkOrder>>

\* lines 733-736: the result is logged and show_dedup_results is scheduled
Finish(d) ==
    /\ det[d].pc = "finish"
    /\ Dispatching
    /\ det' = [det EXCEPT ![d].pc = "posted"]
    /\ UNCHANGED <<esd, files, backups, raw_files_map, dedup_data_map, clock, wins,
                   exec, stack, mixer, entry, ops, faults, audio, walkOrder>>

\* show_dedup_results: nothing to show, or a window with every row checked
ShowResults(d) ==
    /\ det[d].pc = "posted"
    /\ Dispatching
    /\ det' = [det EXCEPT ![d].pc = "shown"]
    /\ IF det[d].dups = <<>>
       THEN UNCHANGED <<wins, dedup_data_map>>
       ELSE /\ wins' = [wins EXCEPT ![d] =
                          [state |-> "open",
                           sel |-> [i \in 1..Len(det[d].dups) |-> TRUE],
                           icons |-> [i \in 1..Len(det[d].dups) |-> TRUE]]]
            /\ dedup_data_map' = d
    /\ UNCHANGED <<esd, files, backups, raw_files_map, clock, exec, stack, mixer, entry,
                   ops, faults, audio, walkOrder>>

\* load_preview, lines 279-283: the map is rebuilt from a walk of raw/
LoadPreview ==
    /\ Dispatching
    /\ ops < MaxOps
    /\ ops' = ops + 1
    /\ raw_files_map' = [n \in Names |-> WalkLast(files, n)]
    /\ UNCHANGED <<esd, files, backups, dedup_data_map, clock, det, wins, exec,
                   stack, mixer, entry, faults, audio, walkOrder>>

\* ------------------------------------------------------------------ review window
\* dedup_data_map.get(row_id): row ids are numbered per tree, so row i of any
\* window finds the i-th dict of the detection shown last (None beyond its rows)
RowData(i) ==
    IF dedup_data_map # 0 /\ i <= Len(det[dedup_data_map].dups)
    THEN dedup_data_map ELSE 0

\* on_dedup_tree_click, column #1: the dict's flag flips, the clicked row's icon
\* shows the new value
Toggle(v, i) ==
    /\ Dispatching
    /\ wins[v].state = "open"
    /\ i \in 1..Len(wins[v].icons)
    /\ LET o == RowData(i) IN
          IF o = 0 THEN UNCHANGED wins
          ELSE LET new_val == ~wins[o].sel[i]
               IN  wins' = [wins EXCEPT ![o].sel[i] = new_val,
                                        ![v].icons[i] = new_val]
    /\ ops < MaxOps
    /\ ops' = ops + 1
    /\ UNCHANGED <<esd, files, backups, raw_files_map, dedup_data_map, clock, det,
                   exec, stack, mixer, entry, faults, audio, walkOrder>>

\* play_audio: a thread is started that will run _play on file_path
PlayAudio(file_path) == Append(players, [path |-> file_path, pc |-> "busy"])

\* on_dedup_tree_click, columns #3 and #4: the keep or delete file is played
PreviewClick(v, i, keep) ==
    /\ Dispatching
    /\ wins[v].state = "open"
    /\ i \in 1..Len(wins[v].icons)
    /\ LET o == RowData(i) IN
          IF o = 0 THEN UNCHANGED players
          ELSE LET c == det[o].dups[i]
                   path == IF keep THEN c.keep_path ELSE c.delete_path
               IN  IF files[path] # NoFile
                   THEN players' = PlayAudio(path)
                   ELSE UNCHANGED players
    /\ ops < MaxOps
    /\ ops' = ops + 1
    /\ UNCHANGED <<esd, files, backups, raw_files_map, dedup_data_map, clock, det,
                   wins, exec, stack, playing, loaded, entry, faults, audio,
                   walkOrder>>

\* _play, lines 481-482: music that is playing is stopped
PlayBusy(j) ==
    /\ j \in 1..Len(players)
    /\ players[j].pc = "busy"
    /\ playing' = NoPath
    /\ players' = [players EXCEPT ![j].pc = "load"]
    /\ UNCHANGED <<esd, files, backups, raw_files_map, dedup_data_map, clock, det,
                   wins, exec, stack, loaded, entry, ops, faults, audio, walkOrder>>

\* _play, line 483: music.load stops the music and loads the file; a file that
\* is gone raises, and the thread ends in its except clause
PlayLoad(j) ==
    /\ j \in 1..Len(players)
    /\ players[j].pc = "load"
    /\ IF files[players[j].path] = NoFile
       THEN /\ players' = [players EXCEPT ![j].pc = "done"]
            /\ UNCHANGED <<playing, loaded>>
       ELSE /\ players' = [players EXCEPT ![j].pc = "play"]
            /\ loaded' = players[j].path
            /\ playing' = NoPath
    /\ UNCHANGED <<esd, files, backups, raw_files_map, dedup_data_map, clock, det,
                   wins, exec, stack, entry, ops, faults, audio, walkOrder>>

\* _play, line 484: music.play starts the loaded music
PlayStart(j) ==
    /\ j \in 1..Len(players)
    /\ players[j].pc = "play"
    /\ playing' = loaded
    /\ players' = [players EXCEPT ![j].pc = "done"]
    /\ UNCHANGED <<esd, files, backups, raw_files_map, dedup_data_map, clock, det,
                   wins, exec, stack, loaded, entry, ops, faults, audio, walkOrder>>

\* the cancel button: win.destroy
Cancel(v) ==
    /\ Dispatching
    /\ wins[v].state = "open"
    /\ wins' = [wins EXCEPT ![v].state = "closed"]
    /\ ops < MaxOps
    /\ ops' = ops + 1
    /\ UNCHANGED <<esd, files, backups, raw_files_map, dedup_data_map, clock, det,
                   exec, stack, mixer, entry, faults, audio, walkOrder>>

\* selected_dupes = [d for d in duplicates if d["selected"]]
SelectedDupes(v) ==
    LET idx == SelectSeq([i \in 1..Len(det[v].dups) |-> i],
                         LAMBDA i : wins[v].sel[i])
    IN  [j \in 1..Len(idx) |-> det[v].dups[idx[j]]]

\* do_delete going on whatever the operator answers
ProceedsUnasked(count, yes) == count > 0

\* do_delete goes on to execute_dedup_deletion
Proceeds(count, yes) == count > 0 /\ yes

\* do_delete: nothing selected or the operator declines: return; else the window
\* is destroyed and execute_dedup_deletion is entered (its first log call)
DoDelete(v) ==
    /\ Dispatching
    /\ wins[v].state = "open"
    /\ \E yes \in BOOLEAN :
          LET selected_dupes == SelectedDupes(v) IN
          IF Proceeds(Len(selected_dupes), yes)
          THEN /\ wins' = [wins EXCEPT ![v].state = "closed"]
               /\ exec' = [exec EXCEPT ![v] =
                             [NoExec EXCEPT !.pc = "log1", !.dupes = selected_dupes,
                                            !.pre = esd, !.prefiles = files,
                                            !.confirmed = yes]]
               /\ stack' = Append(stack, v)
          ELSE UNCHANGED <<wins, exec, stack>>
    /\ UNCHANGED <<esd, files, backups, raw_files_map, dedup_data_map, clock, det,
                   mixer, entry, ops, faults, audio, walkOrder>>

\* ------------------------------------------------------------------ executor
\* lines_to_remove = set(d["delete_line"] for d in duplicates)
LinesToRemove(dupes) == {dupes[i].delete_line : i \in 1..Len(dupes)}

\* files_to_remove = set(d["delete_path"] for d in duplicates)
FilesToRemove(dupes) == {dupes[i].delete_path : i \in 1..Len(dupes)}

\* lines 900-905: the lines that stay, in the order of the file
NewLines(m, lines_to_remove) ==
    SelectSeq(m, LAMBDA l : Strip(l) \notin lines_to_remove)

\* what open(esd_path, "w") and writelines leave in the file when the write
\* raises: the file was truncated and some of the lines were written
PartialWrites(new_lines) ==
    {SubSeq(new_lines, 1, n) : n \in 0..(Len(new_lines) - 1)}

\* an error that is noted while the try block goes on
RaiseAndGoOn(e, err) == [e EXCEPT !.err = err]

\* except Exception (lines 922-924): the rest of the try block is skipped, the
\* error is shown and logged
Raise(e, err) == [e EXCEPT !.pc = "logE", !.err = err]

\* lines 881-891: the backup directory of this second, the manifest copied into
\* it; copy2 may raise once the directory is there
ExecBackup ==
    /\ stack # <<>>
    /\ exec[Top].pc = "log1"
    /\ \E t \in Clock :
          /\ t >= clock
          /\ clock' = t
          /\ \/ /\ backups' = [backups EXCEPT ![t].exists = TRUE,
                                              ![t].hasEsd = TRUE, ![t].esd = esd]
                /\ exec' = [exec EXCEPT ![Top].pc = "log2", ![Top].ts = t,
                                        ![Top].copied = esd]
                /\ UNCHANGED faults
             \/ /\ faults < MaxFaults
                /\ faults' = faults + 1
                /\ backups' = [backups EXCEPT ![t].exists = TRUE]
                /\ exec' = [exec EXCEPT ![Top] =
                              Raise([exec[Top] EXCEPT !.ts = t], "backup")]
    /\ UNCHANGED <<esd, files, raw_files_map, dedup_data_map, det, wins, stack,
                   mixer, entry, ops, audio, walkOrder>>

\* lines 896-909: the manifest is read, filtered and written back; opening may
\* raise (nothing written), writing may raise (a truncated file)
ExecRewrite ==
    /\ stack # <<>>
    /\ exec[Top].pc = "log2"
    /\ LET e == exec[Top]
           new_lines == NewLines(esd, LinesToRemove(e.dupes))
       IN  \/ /\ esd' = new_lines
              /\ exec' = [exec EXCEPT ![Top].pc = "move", ![Top].rewritten = TRUE,
                                      ![Top].read = esd,
                                      ![Top].todo = FilesToRemove(e.dupes)]
              /\ UNCHANGED faults
           \/ /\ faults < MaxFaults
              /\ faults' = faults + 1
              /\ UNCHANGED esd
              /\ exec' = [exec EXCEPT ![Top] =
                            Raise([e EXCEPT !.read = esd], "open")]
           \/ /\ faults < MaxFaults
              /\ faults' = faults + 1
              /\ esd' \in PartialWrites(new_lines)
              /\ exec' = [exec EXCEPT ![Top] =
                            Raise([e EXCEPT !.read = esd], "write")]
    /\ UNCHANGED <<files, backups, raw_files_map, dedup_data_map, clock, det, wins,
                   stack, mixer, entry, ops, audio, walkOrder>>

\* os.path.join(backup_files_dir, os.path.basename(f_path))
BackupName(p) == p[2]

\* the loop's position after one file of files_to_remove was handled
AfterFile(e, p) ==
    [e EXCEPT !.todo = e.todo \ {p},
              !.pc = IF e.todo \ {p} = {} THEN "log3" ELSE "move"]

\* lines 913-917, one file of the set: a file that is gone is passed over, else
\* it is moved into deleted_files under its basename; the move may raise
ExecMove ==
    /\ stack # <<>>
    /\ exec[Top].pc = "move"
    /\ \E p \in exec[Top].todo :
          LET e == exec[Top] IN
          IF files[p] = NoFile
          THEN /\ exec' = [exec EXCEPT ![Top] = AfterFile(e, p)]
               /\ UNCHANGED <<files, backups, faults>>
          ELSE \/ /\ files' = [files EXCEPT ![p] = NoFile]
                  /\ backups' = [backups EXCEPT
                                   ![e.ts].deleted[BackupName(p)] = files[p]]
                  /\ exec' = [exec EXCEPT ![Top] =
                                [AfterFile(e, p) EXCEPT !.moved = e.moved \cup {p}]]
                  /\ UNCHANGED faults
               \/ /\ faults < MaxFaults
                  /\ faults' = faults + 1
                  /\ exec' = [exec EXCEPT ![Top] = Raise(e, "move")]
                  /\ UNCHANGED <<files, backups>>
    /\ UNCHANGED <<esd, raw_files_map, dedup_data_map, clock, det, wins, stack,
                   mixer, entry, ops, audio, walkOrder>>

\* lines 919-920: the counts are logged and shown; the handler returns
ExecFinish ==
    /\ stack # <<>>
    /\ exec[Top].pc = "log3"
    /\ exec' = [exec EXCEPT ![Top].pc = "ok", ![Top].post = esd]
    /\ stack' = SubSeq(stack, 1, Len(stack) - 1)
    /\ UNCHANGED <<esd, files, backups, raw_files_map, dedup_data_map, clock, det,
                   wins, mixer, entry, ops, faults, audio, walkOrder>>

\* lines 922-924: the error is shown and logged; the handler returns
ExecAbort ==
    /\ stack # <<>>
    /\ exec[Top].pc = "logE"
    /\ exec' = [exec EXCEPT ![Top].pc = "failed", ![Top].post = esd]
    /\ stack' = SubSeq(stack, 1, Len(stack) - 1)
    /\ UNCHANGED <<esd, files, backups, raw_files_map, dedup_data_map, clock, det,
                   wins, mixer, entry, ops, faults, audio, walkOrder>>

\* ------------------------------------------------------------------ datasets
L(d, n, t) == Line(d, n, t, "none")

\* the manifests of the workflow specification: two lines naming files of one
\* basename, two byte-identical lines, lines with trailing whitespace around a
\* malformed line, three duplicates in three files
Manifests ==
    { <<L("x", "a", "H"), L("x", "b", "H"), L("y", "b", "H")>>,
      <<L("x", "a", "H"), L("x", "a", "H")>>,
      <<Line("x", "a", "H", "trail"), JunkLine, Line("x", "b", "H", "trail")>>,
      <<L("x", "a", "H"), L("x", "b", "H"), L("y", "c", "H")>> }

\* the four files hold the same recording, two of them with silence around it
Recordings ==
    {[c \in Contents |-> IF c \in {"xa", "yb"} THEN <<0, 4, 4>> ELSE <<4, 4, 0>>]}

\* what the operator leaves in the tuning entries: the defaults, or text
ParamChoices == {DefaultParams, [DefaultParams EXCEPT !.q_levels = NotANumber]}

WalkOrders == {<<"x", "y">>}

Init ==
    /\ esd \in Manifests
    /\ files = InitFiles
    /\ backups = [t \in Clock |-> NoBackup]
    /\ raw_files_map = [n \in Names |-> NoPath]
    /\ dedup_data_map = 0
    /\ clock = 0
    /\ det = [d \in Dets |-> IdleDet]
    /\ wins = [d \in Dets |-> NoWindow]
    /\ exec = [d \in Dets |-> NoExec]
    /\ stack = <<>>
    /\ playing = NoPath
    /\ loaded = NoPath
    /\ players = <<>>
    /\ params = DefaultParams
    /\ param_errors = 0
    /\ ops = 0
    /\ faults = 0
    /\ audio \in Recordings
    /\ walkOrder \in WalkOrders

Next ==
    \/ \E p \in ParamChoices : EditParams(p)
    \/ \E d \in Dets : StartDedup(d)
    \/ \E d \in Dets : ReadManifest(d)
    \/ \E d \in Dets : LogGroups(d)
    \/ \E d \in Dets : Scan(d)
    \/ \E d \in Dets : Finish(d)
    \/ \E d \in Dets : ShowResults(d)
    \/ LoadPreview
    \/ \E v \in Dets, i \in 1..MaxLines : Toggle(v, i)
    \/ \E v \in Dets, i \in 1..MaxLines, keep \in BOOLEAN : PreviewClick(v, i, keep)
    \/ \E v \in Dets : Cancel(v)
    \/ \E v \in Dets : DoDelete(v)
    \/ ExecBackup
    \/ ExecRewrite
    \/ ExecMove
    \/ ExecFinish
    \/ ExecAbort

Spec == Init /\ [][Next]_vars

\* ------------------------------------------------------------------ detection only
\* the lines the manifests of the detection-only specification are made of
DetectLines ==
    {L("x", n, "H") : n \in Names}
        \cup {L("x", "a", "W"), L("y", "b", "H"), Line("x", "a", "H", "trail"),
              JunkLine}

RECURSIVE SeqsUpTo(_, _)
SeqsUpTo(S, n) ==
    IF n = 0 THEN {<<>>}
    ELSE LET shorter == SeqsUpTo(S, n - 1)
         IN  shorter \cup {Append(q, x) : q \in shorter, x \in S}

\* raw/x/a holds a recording; any other file holds the same recording with
\* the silence at its other end, a recording with a quiet start, or silence
DetectAudio ==
    {f \in [Contents -> {<<0, 4, 4>>, <<4, 4, 0>>, <<1, 4>>, <<0, 0>>}] :
        /\ f["xa"] = <<0, 4, 4>>
        /\ \A c \in Contents \ {"xa"} : f[c] # <<0, 4, 4>>}

InitDetect ==
    /\ esd \in SeqsUpTo(DetectLines, MaxLines)
    /\ files = InitFiles
    /\ backups = [t \in Clock |-> NoBackup]
    /\ raw_files_map = [n \in Names |-> NoPath]
    /\ dedup_data_map = 0
    /\ clock = 0
    /\ det = [d \in Dets |-> IdleDet]
    /\ wins = [d \in Dets |-> NoWindow]
    /\ exec = [d \in Dets |-> NoExec]
    /\ stack = <<>>
    /\ playing = NoPath
    /\ loaded = NoPath
    /\ players = <<>>
    /\ params = DefaultParams
    /\ param_errors = 0
    /\ ops = 0
    /\ faults = 0
    /\ audio \in DetectAudio
    /\ walkOrder \in {<<"x", "y">>, <<"y", "x">>}

\* one detection, from the button to the result window, and load_preview
NextDetect ==
    \/ StartDedup(1)
    \/ ReadManifest(1)
    \/ LogGroups(1)
    \/ Scan(1)
    \/ Finish(1)
    \/ ShowResults(1)
    \/ LoadPreview

SpecDetect == InitDetect /\ [][NextDetect]_vars

\* ------------------------------------------------------------------ two groups
\* lines of two transcript texts over the files of the tree
OrderLines ==
    {L("x", "a", "H"), L("x", "b", "H"), L("y", "c", "H"),
     L("x", "a", "W"), L("x", "b", "W")}

\* raw/x/a and raw/y/b hold one recording; raw/x/b and raw/y/c hold it too, or
\* another recording, or silence
OrderAudio == {f \in DetectAudio : f["yb"] = <<4, 4, 0>>}

InitOrder ==
    /\ esd \in SeqsUpTo(OrderLines, MaxGroupLines)
    /\ files = InitFiles
    /\ backups = [t \in Clock |-> NoBackup]
    /\ raw_files_map = [n \in Names |-> NoPath]
    /\ dedup_data_map = 0
    /\ clock = 0
    /\ det = [d \in Dets |-> IdleDet]
    /\ wins = [d \in Dets |-> NoWindow]
    /\ exec = [d \in Dets |-> NoExec]
    /\ stack = <<>>
    /\ playing = NoPath
    /\ loaded = NoPath
    /\ players = <<>>
    /\ params = DefaultParams
    /\ param_errors = 0
    /\ ops = 0
    /\ faults = 0
    /\ audio \in OrderAudio
    /\ walkOrder \in WalkOrders

SpecOrder == InitOrder /\ [][NextDetect]_vars

\* ------------------------------------------------------------------ fingerprints
\* lines of one text, so that every file named is hashed
HashLines == {L("x", "a", "H"), L("x", "b", "H"), L("y", "c", "H")}

\* raw/y/b holds a recording; any other file holds a recording, one that ends
\* quietly, silence, or nothing librosa can decode
HashAudio ==
    {f \in [Contents -> {<<0, 4, 4>>, <<4, 1>>, <<0, 0>>, <<>>}] : f["yb"] = <<0, 4, 4>>}

\* the tuning parameters a detection is started with
HashParams ==
    {[top_db |-> Num(t), hash_sr |-> Num(r), q_levels |-> Num(q)] :
        t \in {40, 10}, r \in {2000, SampleRate}, q \in {15, 3}}

InitHash ==
    /\ esd \in SeqsUpTo(HashLines, MaxLines)
    /\ files = InitFiles
    /\ backups = [t \in Clock |-> NoBackup]
    /\ raw_files_map = [n \in Names |-> NoPath]
    /\ dedup_data_map = 0
    /\ clock = 0
    /\ det = [d \in Dets |-> IdleDet]
    /\ wins = [d \in Dets |-> NoWindow]
    /\ exec = [d \in Dets |-> NoExec]
    /\ stack = <<>>
    /\ playing = NoPath
    /\ loaded = NoPath
    /\ players = <<>>
    /\ params \in HashParams
    /\ param_errors = 0
    /\ ops = 0
    /\ faults = 0
    /\ audio \in HashAudio
    /\ walkOrder \in WalkOrders

SpecHash == InitHash /\ [][NextDetect]_vars

\* ------------------------------------------------------------------ playback
\* detections, their result windows, the previews and the playback threads
NextPlay ==
    \/ \E d \in Dets : StartDedup(d)
    \/ \E d \in Dets : ReadManifest(d)
    \/ \E d \in Dets : LogGroups(d)
    \/ \E d \in Dets : Scan(d)
    \/ \E d \in Dets : Finish(d)
    \/ \E d \in Dets : ShowResults(d)
    \/ \E v \in Dets, i \in 1..MaxLines, keep \in BOOLEAN : PreviewClick(v, i, keep)
    \/ \E j \in 1..MaxOps : PlayBusy(j)
    \/ \E j \in 1..MaxOps : PlayLoad(j)
    \/ \E j \in 1..MaxOps : PlayStart(j)

SpecPlay == Init /\ [][NextPlay]_vars

\* ------------------------------------------------------------------ properties
InStack(v) == \E j \in 1..Len(stack) : stack[j] = v

\* C1: every audio file an execution took from its place in the audio tree is in
\* the deleted_files folder of that execution's backup directory, and every file
\* of the tree is at any time in its place or in some backup's deleted_files.
C1_RemovedFilesInBackup ==
    /\ \A v \in Dets : \A p \in exec[v].moved :
          backups[exec[v].ts].deleted[BackupName(p)] = exec[v].prefiles[p]
    /\ \A p \in Paths :
          InitFiles[p] # NoFile =>
             \/ files[p] = InitFiles[p]
             \/ \E t \in Clock : backups[t].deleted[BackupName(p)] = InitFiles[p]

\* C2: while an execution runs, whenever the manifest or an audio file differs
\* from what it was when the execution was entered, the execution's backup
\* directory holds a copy of the manifest as it was then.
C2_BackupBeforeMutation ==
    \A v \in Dets :
       (InStack(v) /\ (esd # exec[v].pre \/ files # exec[v].prefiles)) =>
          /\ exec[v].ts >= 0
          /\ backups[exec[v].ts].hasEsd
          /\ backups[exec[v].ts].esd = exec[v].pre

\* C3: a step changes the manifest or the audio tree only if it is a step of an
\* execution that was entered over a non-empty list of checked candidates after
\* the operator confirmed; every other step of the workflow leaves both alone.
C3_OnlyConfirmedCommitMutates ==
    [][(esd' # esd \/ files' # files) =>
          IF stack = <<>> THEN FALSE
          ELSE /\ exec[Top].pc \in {"log2", "move"}
               /\ exec'[Top] # exec[Top]
               /\ exec[Top].confirmed
               /\ exec[Top].dupes # <<>>]_vars

C3_CommitAfterClicks ==
    \E v \in Dets :
       /\ exec[v].pc = "ok"
       /\ exec[v].moved # {}
       /\ exec[v].post # exec[v].pre
       /\ ops = MaxOps

\* the confirmed candidates whose delete_line is a line of manifest m
PresentVerbatim(dupes, m) ==
    {i \in 1..Len(dupes) : \E j \in 1..Len(m) : m[j] = dupes[i].delete_line}

\* C4: after a successful execution the manifest has as many lines fewer as there
\* were confirmed candidates whose delete_line was a line of the manifest.
C4_LineCount ==
    \A v \in Dets :
       exec[v].pc = "ok" =>
          Len(exec[v].post) =
             Len(exec[v].pre) - Cardinality(PresentVerbatim(exec[v].dupes, exec[v].pre))

\* C5: after a successful execution the manifest is the subsequence of the lines
\* it had when the execution was entered whose stripped text is no confirmed
\* delete_line.
C5_FilteredSubsequence ==
    \A v \in Dets :
       exec[v].pc = "ok" =>
          exec[v].post = NewLines(exec[v].pre, LinesToRemove(exec[v].dupes))

\* the digest the scan computed for manifest position i (if it has taken that turn)
Scanned(w, i) == \E j \in 1..Len(w.hs) : w.order[j].rec = i
ScannedHash(w, i) == w.hs[CHOOSE j \in 1..Len(w.hs) : w.order[j].rec = i]

\* C6: the keep entry of a candidate comes before its delete entry in the
\* manifest, both got the same available digest, and no earlier record of that
\* text got that digest: keep is the first of them in manifest order.
C6_KeepIsFirst ==
    \A d \in Dets : \A n \in 1..Len(det[d].dups) :
       LET w == det[d]
           c == w.dups[n]
           m == w.lines
       IN  /\ c.keep < c.del
           /\ c.keep_line = m[c.keep]
           /\ c.delete_line = m[c.del]
           /\ Scanned(w, c.keep) /\ Scanned(w, c.del)
           /\ ScannedHash(w, c.del) # Unavailable
           /\ ScannedHash(w, c.keep) = ScannedHash(w, c.del)
           /\ \A i \in 1..(c.keep - 1) :
                 (IsRecord(m[i]) /\ RecText(m[i]) = RecText(m[c.del]) /\ Scanned(w, i))
                    => ScannedHash(w, i) # ScannedHash(w, c.del)

\* three records of one text with one digest: two candidates, one keep entry
C6_ThreeOfOneDigest ==
    \E d \in Dets :
       /\ det[d].pc = "shown"
       /\ Len(det[d].dups) = 2
       /\ det[d].dups[1].keep = 1 /\ det[d].dups[2].keep = 1
       /\ det[d].dups[1].del = 2 /\ det[d].dups[2].del = 3

\* C7: the keep entry and the delete entry of a candidate have the same
\* transcript text, which is the candidate's text.
C7_SameText ==
    \A d \in Dets : \A n \in 1..Len(det[d].dups) :
       LET c == det[d].dups[n]
           k == det[d].lines[c.keep]
           x == det[d].lines[c.del]
       IN  /\ k.text = x.text
           /\ (k.pad = "trail") = (x.pad = "trail")
           /\ c.text = <<x.text, x.pad = "trail">>

\* a detection that found a candidate and passed over a record of another text
\* whose file has the candidate's digest
C7_OtherTextSameDigest ==
    \E d \in Dets :
       /\ det[d].pc = "shown"
       /\ det[d].dups # <<>>
       /\ \E i \in 1..Len(det[d].lines) :
             LET l == det[d].lines[i]
                 c == det[d].dups[1]
             IN  /\ IsRecord(l)
                 /\ RecText(l) # c.text
                 /\ AudioContentHash(files,
                                     FindAudioPath(raw_files_map, files, Basename(l)),
                                     det[d].args)
                       = AudioContentHash(files, c.delete_path, det[d].args)
                 /\ AudioContentHash(files, c.delete_path, det[d].args) # Unavailable

\* C8: when the rewrite of the manifest raised, the execution leaves the manifest
\* as it read it or as the whole filtered list.
C8_NoPartialManifest ==
    \A v \in Dets :
       (exec[v].pc = "failed" /\ exec[v].err \in {"open", "write"}) =>
          \/ exec[v].post = exec[v].read
          \/ exec[v].post = NewLines(exec[v].read, LinesToRemove(exec[v].dupes))

\* C9: once a step of an execution has raised, the only step the execution takes
\* is its return, and that step leaves the manifest, the audio tree and every
\* backup directory as they are: nothing more is done, nothing is moved back.
C9_AbortSkipsTheRest ==
    [][\A v \in Dets :
          (exec[v].err # "none" /\ exec'[v] # exec[v]) =>
             /\ exec[v].pc = "logE"
             /\ exec'[v] = [exec[v] EXCEPT !.pc = "failed", !.post = esd]
             /\ UNCHANGED <<esd, files, backups>>]_vars

\* an execution that raised while moving its second file: the first file is in the
\* backup, the second still in the tree, the manifest copy in place
C9_AbortedHalfway ==
    \E v \in Dets :
       /\ exec[v].pc = "failed"
       /\ exec[v].err = "move"
       /\ exec[v].moved # {}
       /\ \A p \in exec[v].moved :
             /\ files[p] = NoFile
             /\ backups[exec[v].ts].deleted[BackupName(p)] = exec[v].prefiles[p]
       /\ \E p \in exec[v].todo : files[p] # NoFile
       /\ backups[exec[v].ts].hasEsd
       /\ backups[exec[v].ts].esd = exec[v].copied

\* C10: two executions never use the same backup directory, and the manifest copy
\* an execution made stays in its backup directory.
C10_OwnBackupDirectory ==
    /\ \A v, w \in Dets :
          (v # w /\ exec[v].ts >= 0 /\ exec[w].ts >= 0) => exec[v].ts # exec[w].ts
    /\ \A v \in Dets :
          (exec[v].ts >= 0 /\ exec[v].err # "backup") =>
             backups[exec[v].ts].esd = exec[v].copied

\* C11: at most one execution is between its start and its end at any time: no
\* execute_dedup_deletion is entered while another one has not returned.
C11_OneExecutionInFlight == Len(stack) <= 1

\* C12: the worker thread never writes raw_files_map: a step in which the map
\* changes is a step of a handler of the UI thread, never a turn of the
\* worker's scan.
C12_WorkerNeverWritesMap ==
    [][raw_files_map' # raw_files_map => \A d \in Dets : det'[d] = det[d]]_vars

\* C13: two detections that read the same manifest with the same parameters,
\* with no file of the audio tree moved, report the same sequence of candidates.
C13_SameCandidatesTwice ==
    \A d, e \in Dets :
       (/\ det[d].pc \in {"posted", "shown"}
        /\ det[e].pc \in {"posted", "shown"}
        /\ det[d].lines = det[e].lines
        /\ det[d].args = det[e].args
        /\ files = InitFiles)
          => det[d].dups = det[e].dups

\* the turns of a scan on which a digest was computed
Available(w) == {j \in 1..Len(w.hs) : w.hs[j] # Unavailable}

\* for a turn with a digest: the earlier turns of its group with the same digest
Earlier(w, j) ==
    {i \in Available(w) :
        i < j /\ w.order[i].text = w.order[j].text /\ w.hs[i] = w.hs[j]}

Least(S) == CHOOSE i \in S : \A k \in S : i <= k

\* the pairs <<keep, delete>> the entries with a digest yield, in scan order
Yield(w) ==
    LET hits == SelectSeq([j \in 1..Len(w.hs) |-> j],
                          LAMBDA j : j \in Available(w) /\ Earlier(w, j) # {})
    IN  [n \in 1..Len(hits) |->
           <<w.order[Least(Earlier(w, hits[n]))].rec, w.order[hits[n]].rec>>]

\* how far a detection has come: its place in run_dedup_analysis and the turns
\* of the scan it has taken
Progress(w) ==
    CASE w.pc = "idle" -> 0
      [] w.pc = "start" -> 1
      [] w.pc = "log664" -> 2
      [] w.pc = "scan" -> 2 + w.k
      [] w.pc = "finish" -> 4 + Len(w.order)
      [] w.pc = "posted" -> 5 + Len(w.order)
      [] w.pc = "shown" -> 6 + Len(w.order)

\* a detection that has passed over entries is where the other entries alone
\* would have brought it
SkipsOnly ==
    \A d \in Dets :
       LET w == det[d] IN
       /\ w.pc \in {"idle", "start", "log664", "scan", "finish", "posted", "shown"}
       /\ w.pc = "scan" => w.k \in 1..Len(w.order)
       /\ w.pc \in {"finish", "posted", "shown"} =>
             /\ Len(w.hs) = Len(w.order)
             /\ \A n \in 1..Len(w.dups) :
                   /\ ScannedHash(w, w.dups[n].keep) # Unavailable
                   /\ ScannedHash(w, w.dups[n].del) # Unavailable
             /\ [n \in 1..Len(w.dups) |-> <<w.dups[n].keep, w.dups[n].del>>] = Yield(w)

\* C14: a detection is never at a place other than the steps that lead to its
\* result, a scan always has its next record to turn to, and every step brings
\* the detection nearer to its result, so it runs to completion whatever entries
\* have a missing file or no digest; such an entry is neither keep nor delete of
\* a candidate, and the candidates are exactly those the other entries yield.
C14_SkipsAndCompletes ==
    [][/\ SkipsOnly
       /\ SkipsOnly'
       /\ \A d \in Dets :
             det'[d] # det[d] => Progress(det'[d]) > Progress(det[d])]_vars

\* a detection that was shown with a candidate whose keep and delete entries
\* are the first and the third of the scan, the second being an entry without
\* a digest
C14_SkippedInBetween ==
    \E d \in Dets :
       /\ det[d].pc = "shown"
       /\ Len(det[d].hs) = 3
       /\ det[d].hs[2] = Unavailable
       /\ Len(det[d].dups) = 1
       /\ det[d].dups[1].keep = det[d].order[1].rec
       /\ det[d].dups[1].del = det[d].order[3].rec

\* C15: a step that changes a flag or a check mark of the result windows is a
\* toggle of one candidate: it flips that candidate's flag and its check mark
\* and nothing else; a step that starts a playback leaves flags, candidates,
\* manifest and audio tree alone; a window opens with every flag set.
C15_ToggleAndPreviewFrame ==
    [][/\ (wins' # wins /\ \A v \in Dets : wins'[v].state = wins[v].state) =>
             /\ \E v \in Dets : \E i \in 1..Len(wins[v].sel) :
                   wins' = [wins EXCEPT ![v].sel[i] = ~wins[v].sel[i],
                                        ![v].icons[i] = ~wins[v].sel[i]]
             /\ UNCHANGED <<det, esd, files>>
       /\ players' # players => UNCHANGED <<wins, det, esd, files>>
       /\ \A v \in Dets :
             (wins[v].state = "none" /\ wins'[v].state = "open") =>
                \A i \in 1..Len(wins'[v].sel) : wins'[v].sel[i]]_vars

\* the manifest position at which the text of record i first appears
FirstPos(m, i) ==
    CHOOSE j \in 1..i :
       /\ IsRecord(m[j]) /\ RecText(m[j]) = RecText(m[i])
       /\ \A k \in 1..(j - 1) : ~(IsRecord(m[k]) /\ RecText(m[k]) = RecText(m[i]))

\* C16: of two candidates, the one reported first belongs to the group whose
\* text appears first in the manifest, or both belong to one group and its
\* delete entry comes first in the manifest; groups are never interleaved.
C16_GroupedInManifestOrder ==
    \A d \in Dets : \A n, o \in 1..Len(det[d].dups) :
       n < o =>
          LET m == det[d].lines
              c == det[d].dups[n]
              e == det[d].dups[o]
          IN  \/ FirstPos(m, c.del) < FirstPos(m, e.del)
              \/ /\ FirstPos(m, c.del) = FirstPos(m, e.del)
                 /\ c.text = e.text
                 /\ c.del < e.del

\* two candidates of two groups: the first group's delete entry is the last
\* line of the manifest, behind both entries of the second group
C16_LaterLineReportedFirst ==
    \E d \in Dets :
       /\ det[d].pc = "shown"
       /\ Len(det[d].dups) = 2
       /\ det[d].dups[1].text # det[d].dups[2].text
       /\ det[d].dups[1].del > det[d].dups[2].del
       /\ det[d].dups[1].keep < det[d].dups[2].keep

\* C17: once every playback thread has run, the clip that plays is the clip of
\* the last preview requested; while threads run, a clip that plays is a clip
\* that was requested.
C17_LastRequestedPlays ==
    /\ playing # NoPath => \E j \in 1..Len(players) : players[j].path = playing
    /\ (players # <<>> /\ \A j \in 1..Len(players) : players[j].pc = "done")
          => playing = players[Len(players)].path

\* the three entries hold numbers
Numeric(p) == p.top_db.numeric /\ p.hash_sr.numeric /\ p.q_levels.numeric

\* C18: while one of the three entries holds no number, no detection worker is
\* started; the step that reports the error is taken only then, and it leaves the
\* workers, the candidates and their windows, raw_files_map, the manifest and
\* the audio tree as they are.
C18_NonNumericRejected ==
    [][/\ \A d \in Dets :
             (det[d].pc = "idle" /\ det'[d].pc # "idle") => Numeric(params)
       /\ param_errors' # param_errors =>
             /\ ~Numeric(params)
             /\ param_errors' = param_errors + 1
             /\ UNCHANGED <<det, wins, dedup_data_map, raw_files_map, esd, files,
                            backups, params>>]_vars

\* a detection was refused for its parameters while the window of an earlier
\* detection was open and its cache entries in place
C18_RefusedBesideOpenWindow ==
    /\ param_errors > 0
    /\ ~Numeric(params)
    /\ wins[1].state = "open"
    /\ det[2].pc = "idle"
    /\ \E n \in Names : raw_files_map[n] # NoPath

\* the digests computed so far depend on the samples and the parameters only
SameInSameOut ==
    \A d, e \in Dets :
       \A i \in 1..Len(det[d].hs) : \A j \in 1..Len(det[e].hs) :
          (/\ det[d].srcs[i] # NoFile /\ det[e].srcs[j] # NoFile
           /\ audio[det[d].srcs[i]] = audio[det[e].srcs[j]]
           /\ det[d].args = det[e].args)
             => det[d].hs[i] = det[e].hs[j]

Unconfirmed(v) ==
    {n \in 1..Len(det[v].dups) :
        \A k \in 1..Len(exec[v].dupes) : exec[v].dupes[k] # det[v].dups[n]}

\* C20: when an execution ends well, the delete file of every candidate that was
\* not checked is where it was when the execution began, and its delete line,
\* if it was in the manifest then, is in the manifest still.
C20_UncheckedUntouched ==
    [][\A v \in Dets :
          (exec[v].pc = "log3" /\ exec'[v].pc = "ok") =>
             \A n \in Unconfirmed(v) :
                LET c == det[v].dups[n] IN
                /\ files'[c.delete_path] = exec[v].prefiles[c.delete_path]
                /\ (\E j \in 1..Len(exec[v].pre) : exec[v].pre[j] = c.delete_line)
                      => \E j \in 1..Len(esd') : esd'[j] = c.delete_line]_vars

\* C21: when an execution returns without an error, the keep line of each of
\* its candidates is still a line of the manifest and the keep file is still
\* at keep_path.
C21_KeepNeverRemoved ==
    [][\A v \in Dets :
          (exec[v].pc = "log3" /\ exec'[v].pc = "ok") =>
              \A i \in 1..Len(exec[v].dupes) :
                  LET c == exec[v].dupes[i] IN
                  /\ \E k \in 1..Len(esd') : esd'[k] = c.keep_line
                  /\ files'[c.keep_path] # NoFile]_vars

\* C22: in every open result window the check mark of each row equals the
\* selected flag of the candidate the row shows, so a commit executes the
\* candidates shown as checked.
C22_CheckMarkIsFlag ==
    \A v \in Dets : wins[v].state = "open" => wins[v].icons = wins[v].sel

\* the turns of a finished scan whose entry is in the group of turn j and has
\* the digest of turn j
Sharing(w, j) ==
    {i \in 1..Len(w.order) :
        w.order[i].text = w.order[j].text /\ w.hs[i] = w.hs[j]}

\* the turn of the scan on which the record at manifest position rec was taken
TurnOf(w, rec) == CHOOSE j \in 1..Len(w.order) : w.order[j].rec = rec

\* the candidates emitted for the group and the digest of turn j
EmittedFor(w, j) ==
    {n \in 1..Len(w.dups) :
        /\ \E i \in 1..Len(w.order) : w.order[i].rec = w.dups[n].del
        /\ TurnOf(w, w.dups[n].del) \in Sharing(w, j)}

\* C23: when a detection is done, for every group and every digest that k >= 1
\* of the group's entries have, k - 1 candidates were emitted for it, all with
\* the first of these entries as keep, and each of the k - 1 later entries is
\* the delete entry of exactly one of them; every candidate is emitted for a
\* digest of a group of two or more entries.
C23_OneCandidatePerLaterEntry ==
    \A d \in Dets :
       LET w == det[d] IN
       w.pc \in {"finish", "posted", "shown"} =>
          /\ \A j \in 1..Len(w.order) :
                w.hs[j] # Unavailable =>
                   LET shared == Sharing(w, j)
                       first == CHOOSE i \in shared : \A k \in shared : i <= k
                       emitted == EmittedFor(w, j)
                   IN  /\ Cardinality(emitted) = Cardinality(shared) - 1
                       /\ \A n \in emitted : w.dups[n].keep = w.order[first].rec
                       /\ \A i \in shared \ {first} :
                             Cardinality({n \in emitted :
                                            w.dups[n].del = w.order[i].rec}) = 1
          /\ \A n \in 1..Len(w.dups) :
                /\ \E j \in 1..Len(w.order) :
                      /\ w.order[j].rec = w.dups[n].del
                      /\ w.hs[j] # Unavailable
                      /\ w.dups[n].text = w.order[j].text
                /\ Len(TextGroup(w.lines, ParseRecords(w.lines, 1),
                                 w.dups[n].text)) >= 2

\* a detection of two groups was shown: in one, three entries have one digest
\* and the two later ones are candidates against the first; the other consists
\* of one entry
C23_ThreeSharingBesideSingleGroup ==
    \E d \in Dets :
       LET w == det[d] IN
       /\ w.pc = "shown"
       /\ Len(w.lines) = 4
       /\ Len(w.order) = 3
       /\ Len(w.dups) = 2
       /\ w.dups[1].keep = w.dups[2].keep
       /\ w.dups[1].del # w.dups[2].del

\* window v executes the candidates an execution of window u has executed
\* before, on the manifest as that execution left it
Again(u, v) ==
    /\ u # v
    /\ exec[u].pc = "ok"
    /\ exec[v].pc \in {"log1", "log2", "move", "log3"}
    /\ exec[v].dupes = exec[u].dupes
    /\ exec[v].pre = exec[u].post

\* C24: no step of a second execution of the same candidates that raises no
\* error changes the manifest or the audio tree, and none changes the backup
\* directory of the first execution (its esd.list copy and its deleted_files).
C24_SecondExecutionChangesNothing ==
    [][\A u, v \in Dets :
          (Again(u, v) /\ stack = <<v>> /\ exec'[v].pc # "logE") =>
              /\ esd' = esd
              /\ files' = files
              /\ backups'[exec[u].ts] = backups[exec[u].ts]]_vars

\* C25: every filename raw_files_map has an entry for is mapped to a path at
\* which a file is in the audio tree.
C25_CachedPathsExist ==
    \A n \in Names :
       raw_files_map[n] # NoPath => files[raw_files_map[n]] # NoFile
====
